---- MODULE Spec2Model ----
(***************************************************************************)
(* T8Client: the REST client of the T8 monitoring service                  *)
(* (src/src/t8_client/api.py) and its command line (src/src/t8_client/     *)
(* cli.py).                                                                *)
(*                                                                         *)
(* Text (Python str) is a sequence of one-character strings, so that       *)
(* rstrip, split, "in", int() and str() are computed and not assumed.      *)
(* Python integers are unbounded; an epoch e is carried as the pair        *)
(* (e div 86400, e mod 86400) so that every intermediate value stays       *)
(* inside the model checker's machine integers. The data of a record is    *)
(* the base64 text of a zlib stream, computed byte by byte; a frequency is *)
(* an exact fraction; the values of the transform itself (window, FFT,     *)
(* magnitudes) are not computed.                                           *)
(***************************************************************************)
EXTENDS Integers, Sequences, FiniteSets, TLC

(***************************************************************************)
(* Text                                                                    *)
(***************************************************************************)

\* Python None, kept apart from every text (no text has a long element).
None == <<"None">>

\* The empty str "".
Empty == <<>>

Digits == <<"0", "1", "2", "3", "4", "5", "6", "7", "8", "9">>

IsDigit(c) == \E i \in 1..10 : Digits[i] = c

DigitVal(c) == (CHOOSE i \in 1..10 : Digits[i] = c) - 1

AllDigits(s) == \A i \in 1..Len(s) : IsDigit(s[i])

\* Python truthiness of an Optional[str]: None and "" are falsy.
Truthy(s) == s # None /\ s # Empty

\* c in s
Contains(s, c) == \E i \in 1..Len(s) : s[i] = c

\* s.rstrip("/")
RECURSIVE rstrip(_)
rstrip(s) ==
    IF s # <<>> /\ s[Len(s)] = "/"
    THEN rstrip(SubSeq(s, 1, Len(s) - 1))
    ELSE s

\* s.split("/"): the list of the parts between the slashes.
RECURSIVE splitFrom(_, _, _)
splitFrom(s, i, cur) ==
    IF i > Len(s) THEN <<cur>>
    ELSE IF s[i] = "/" THEN <<cur>> \o splitFrom(s, i + 1, <<>>)
    ELSE splitFrom(s, i + 1, Append(cur, s[i]))

split(s) == splitFrom(s, 1, <<>>)

\* Faulty variant of last_segment: the trailing slashes are not stripped.
last_segment_no_rstrip(url) ==
    LET parts == split(url) IN parts[Len(parts)]

\* url.rstrip("/").split("/")[-1]
last_segment(url) ==
    LET parts == split(rstrip(url)) IN parts[Len(parts)]

(***************************************************************************)
(* Integers and calendar                                                   *)
(***************************************************************************)

\* An integer e as [day |-> e div 86400, sec |-> e mod 86400].
Num(d, s) == [day |-> d, sec |-> s]

Negate(n) ==
    IF n.sec = 0 THEN Num(0 - n.day, 0)
    ELSE Num(0 - n.day - 1, 86400 - n.sec)

\* Horner evaluation of a digit string.
RECURSIVE Horner(_, _, _)
Horner(s, i, acc) ==
    IF i > Len(s) THEN acc
    ELSE LET t == acc.sec * 10 + DigitVal(s[i])
         IN  Horner(s, i + 1, Num(acc.day * 10 + t \div 86400, t % 86400))

\* int(s) succeeds on an optionally signed, nonempty digit string.
IntOk(s) ==
    /\ s # None
    /\ s # <<>>
    /\ IF s[1] = "-" THEN Len(s) > 1 /\ AllDigits(Tail(s)) ELSE AllDigits(s)

\* int(s)
IntOf(s) ==
    IF s[1] = "-" THEN Negate(Horner(Tail(s), 1, Num(0, 0)))
    ELSE Horner(s, 1, Num(0, 0))

\* The decimal digits of a positive integer.
RECURSIVE DecPos(_)
DecPos(n) ==
    IF n.day = 0 /\ n.sec = 0 THEN <<>>
    ELSE LET t == (n.day % 10) * 86400 + n.sec
         IN  Append(DecPos(Num(n.day \div 10, t \div 10)), Digits[(t % 10) + 1])

\* str(n)
StrOf(n) ==
    IF n.day = 0 /\ n.sec = 0 THEN <<"0">>
    ELSE IF n.day < 0 THEN <<"-">> \o DecPos(Negate(n))
    ELSE DecPos(n)

\* A field zero-padded to w digits (strftime %m, %d, %H, %M, %S).
RECURSIVE Pad(_, _)
Pad(s, w) == IF Len(s) >= w THEN s ELSE Pad(<<"0">> \o s, w)

Dec(k) == StrOf(Num(0, k))

IsLeap(y) == (y % 4 = 0 /\ y % 100 # 0) \/ y % 400 = 0

DaysInMonth(y, m) ==
    IF m = 2 THEN (IF IsLeap(y) THEN 29 ELSE 28)
    ELSE IF m \in {4, 6, 9, 11} THEN 30 ELSE 31

\* Proleptic Gregorian date of a day number (day 0 = 1970-01-01).
CivilFromDays(days) ==
    LET z   == days + 719468
        era == z \div 146097
        doe == z - era * 146097
        yoe == (doe - doe \div 1460 + doe \div 36524 - doe \div 146096) \div 365
        doy == doe - (365 * yoe + yoe \div 4 - yoe \div 100)
        mp  == (5 * doy + 2) \div 153
        d   == doy - (153 * mp + 2) \div 5 + 1
        m   == IF mp < 10 THEN mp + 3 ELSE mp - 9
        y   == yoe + era * 400 + (IF m <= 2 THEN 1 ELSE 0)
    IN  [y |-> y, m |-> m, d |-> d]

\* Day number of a proleptic Gregorian date.
DaysFromCivil(y, m, d) ==
    LET yy  == IF m <= 2 THEN y - 1 ELSE y
        era == yy \div 400
        yoe == yy - era * 400
        mp  == IF m > 2 THEN m - 3 ELSE m + 9
        doy == (153 * mp + 2) \div 5 + d - 1
        doe == yoe * 365 + yoe \div 4 - yoe \div 100 + doy
    IN  era * 146097 + doe - 719468

\* datetime.fromtimestamp(e, tz=UTC) raises ValueError outside years 1..9999.
FromTimestampOk(n) ==
    LET c == CivilFromDays(n.day) IN c.y >= 1 /\ c.y <= 9999

\* strftime("%Y"): the C library pads the year to four digits or does not.
YearText(y, pad) == IF pad THEN Pad(Dec(y), 4) ELSE Dec(y)

\* dt.strftime("%Y-%m-%dT%H:%M:%S")
Strftime(n, pad) ==
    LET c == CivilFromDays(n.day)
    IN  YearText(c.y, pad) \o <<"-">> \o Pad(Dec(c.m), 2) \o <<"-">>
          \o Pad(Dec(c.d), 2) \o <<"T">> \o Pad(Dec(n.sec \div 3600), 2)
          \o <<":">> \o Pad(Dec((n.sec % 3600) \div 60), 2)
          \o <<":">> \o Pad(Dec(n.sec % 60), 2)

\* T8ApiClient.epoch_to_iso
epoch_to_iso(epoch_str, pad) ==
    IF ~IntOk(epoch_str) THEN Empty
    ELSE IF ~FromTimestampOk(IntOf(epoch_str)) THEN Empty
    ELSE Strftime(IntOf(epoch_str), pad)

\* The value of a field of digits.
Field(s, a, b) == Horner(SubSeq(s, a, b), 1, Num(0, 0)).sec

DateOk(s) ==
    /\ AllDigits(SubSeq(s, 1, 4)) /\ s[5] = "-"
    /\ AllDigits(SubSeq(s, 6, 7)) /\ s[8] = "-"
    /\ AllDigits(SubSeq(s, 9, 10))
    /\ Field(s, 1, 4) >= 1
    /\ Field(s, 6, 7) \in 1..12
    /\ Field(s, 9, 10) >= 1
    /\ Field(s, 9, 10) <= DaysInMonth(Field(s, 1, 4), Field(s, 6, 7))

TimeOk(s) ==
    /\ s[11] = "T"
    /\ AllDigits(SubSeq(s, 12, 13)) /\ s[14] = ":"
    /\ AllDigits(SubSeq(s, 15, 16)) /\ s[17] = ":"
    /\ AllDigits(SubSeq(s, 18, 19))
    /\ Field(s, 12, 13) < 24
    /\ Field(s, 15, 16) < 60
    /\ Field(s, 18, 19) < 60

\* datetime.fromisoformat accepts YYYY-MM-DD and YYYY-MM-DDTHH:MM:SS (its
\* other forms carry fractions, offsets or a compact date, which none of
\* the inputs of this model has).
FromIsoOk(s) ==
    /\ s # None
    /\ \/ Len(s) = 10 /\ DateOk(s)
       \/ Len(s) = 19 /\ DateOk(s) /\ TimeOk(s)

\* int(dt.replace(tzinfo=UTC).timestamp())
FromIso(s) ==
    Num(DaysFromCivil(Field(s, 1, 4), Field(s, 6, 7), Field(s, 9, 10)),
        IF Len(s) = 19
        THEN Field(s, 12, 13) * 3600 + Field(s, 15, 16) * 60 + Field(s, 18, 19)
        ELSE 0)

\* Faulty variant of iso_to_epoch: the parsed time is read as local time,
\* one hour east of UTC, instead of being stamped UTC.
iso_to_epoch_local(iso_str) ==
    IF FromIsoOk(iso_str)
    THEN StrOf(IF FromIso(iso_str).sec >= 3600
               THEN Num(FromIso(iso_str).day, FromIso(iso_str).sec - 3600)
               ELSE Num(FromIso(iso_str).day - 1, FromIso(iso_str).sec + 82800))
    ELSE Empty

\* T8ApiClient.iso_to_epoch
iso_to_epoch(iso_str) ==
    IF FromIsoOk(iso_str) THEN StrOf(FromIso(iso_str)) ELSE Empty

(***************************************************************************)
(* The remote service, as the client sees it                               *)
(***************************************************************************)

\* The two catalogue endpoints, {host}/waves/... and {host}/spectra/...
Kinds == {"waves", "spectra"}

\* HTTP status codes the service answers with.
Statuses == {200, 404, 500}

\* {host}/{kind}/{machine}/{point}/{mode}/ of one machine, point and mode.
Prefix == <<"h", "/", "m", "/">>

Url(seg, trail) == Prefix \o seg \o trail

\* An item of "_items" with no "_links"/"self".
NoSelf == None

\* Items of the catalogue sessions: the sentinel, two measurements (one
\* with a trailing slash) and an item without a self link.
Items == {Url(<<"0">>, <<>>), Url(<<"5">>, <<>>), Url(<<"7">>, <<"/">>), NoSelf}

\* Items of the listing sessions: every segment with and without a trailing
\* slash, an item without a self link and one with an empty self link.
ListItems ==
    {Url(seg, trail) : seg \in {<<"0">>, <<"5">>, <<"1", "0">>},
                       trail \in {<<>>, <<"/">>}} \cup {NoSelf, Empty}

\* Bounds: the length of a listing body, and the calls of a session.
MaxItems == 2

MaxListItems == 3

MaxCalls == 2

SeqsUpTo(S, n) == UNION {[1..k -> S] : k \in 0..n}

\* Timestamp specifiers given to get_wave / get_spectrum.
IsoOrigin ==
    <<"1", "9", "7", "0", "-", "0", "1", "-", "0", "1", "T",
      "0", "0", ":", "0", "0", ":", "0", "0">>

Iso5 ==
    <<"1", "9", "7", "0", "-", "0", "1", "-", "0", "1", "T",
      "0", "0", ":", "0", "0", ":", "0", "5">>

DateOnly == <<"1", "9", "7", "0", "-", "0", "1", "-", "0", "1">>

BadDash == <<"5", "-">>

BadT == <<"T", "5">>

Specifiers ==
    {None, Empty, <<"0">>, <<"5">>, IsoOrigin, Iso5, DateOnly, BadDash, BadT}

\* Values of the command line's -d and -t options (None: option absent).
DtOptions == {None, Empty, Iso5}

TsOptions == {None, <<"5">>}

VARIABLES
    remote,     \* kind -> the listing body the service holds (self URLs)
    pc,         \* where the running call stands
    call,       \* the running call: who called, what, with which arguments
    requests,   \* the requests the running call has issued, in order
    statuses,   \* the status codes it has received, in order
    invoked,    \* the client methods the running command has invoked
    ret,        \* what the client method returned or raised
    exit,       \* how the command ended
    saved,      \* the label the running call persisted its record under
    fetched,    \* the timestamp of the record the service sent the call
    files,      \* the records under data/waves and data/spectra
    plots,      \* the figures under data/plots
    calls,      \* calls started in this session
    pad,        \* whether the platform's strftime pads %Y to four digits
    tIn, tIso, tOut, tpc,       \* a conversion round trip
    waveform, padded, ppc,      \* a zero-padding
    wave,       \* the wave file compute_spectrum reads
    band,       \* the band [fmin, fmax] it is asked for
    origin,     \* the buffer the service packed into the wave's data
    computed,   \* what compute_spectrum did and produced
    spc         \* where the computation stands

vars ==
    <<remote, pc, call, requests, statuses, invoked, ret, exit, saved,
      fetched, files, plots, calls, pad, tIn, tIso, tOut, tpc, waveform,
      padded, ppc,
      wave, band, origin, computed, spc>>

catalogVars ==
    <<remote, pc, call, requests, statuses, invoked, ret, exit, saved,
      fetched, files, plots, calls>>

timeVars == <<tIn, tIso, tOut, tpc>>

padVars == <<waveform, padded, ppc>>

spectrumVars == <<wave, band, origin, computed, spc>>

Ret(tag) == [tag |-> tag, timestamps |-> <<>>, isos |-> <<>>]

NoCall ==
    [via |-> "none", op |-> "none", kind |-> "none", dt |-> None, ts |-> None,
     spec |-> None, timestamp |-> None]

CatalogIdle ==
    /\ pc = "idle"
    /\ call = NoCall
    /\ requests = <<>>
    /\ statuses = <<>>
    /\ invoked = {}
    /\ ret = Ret("none")
    /\ exit = "none"
    /\ saved = None
    /\ fetched = None
    /\ files = {}
    /\ plots = {}
    /\ calls = 0

TimeIdle == tIn = None /\ tIso = None /\ tOut = None /\ tpc = "off"

PadIdle == waveform = <<>> /\ padded = <<>> /\ ppc = "off"

NoWave == [data |-> <<>>, sample_rate |-> 1]

NoBand == [fmin |-> 0, fmax |-> 0]

NoOrigin == [samples |-> <<>>, extra |-> <<>>]

NotComputed ==
    [outcome |-> "none", at |-> "", signal |-> <<>>, stages |-> <<>>,
     freqs |-> <<>>, spectrum |-> <<>>, n_original |-> 0, n_fft |-> 0,
     written |-> FALSE]

SpectrumIdle ==
    /\ wave = NoWave
    /\ band = NoBand
    /\ origin = NoOrigin
    /\ computed = NotComputed
    /\ spc = "off"

(***************************************************************************)
(* T8ApiClient: list_waves / list_spectra                                  *)
(***************************************************************************)

\* The loop over body["_items"]: an item without a self URL is skipped, the
\* timestamp is the last path segment, the sentinel "0" is skipped.
RECURSIVE list_loop(_, _, _, _, _)
list_loop(items, i, timestamps, isos, p) ==
    IF i > Len(items) THEN <<timestamps, isos>>
    ELSE IF ~Truthy(items[i]) THEN list_loop(items, i + 1, timestamps, isos, p)
    ELSE IF last_segment(items[i]) = <<"0">>
         THEN list_loop(items, i + 1, timestamps, isos, p)
    ELSE list_loop(items, i + 1,
                   Append(timestamps, last_segment(items[i])),
                   Append(isos, epoch_to_iso(last_segment(items[i]), p)), p)

\* Faulty variant of list_result: the status is not looked at.
list_result_unchecked(status, body, p) == list_loop(body, 1, <<>>, <<>>, p)

\* What list_waves / list_spectra returns for a response.
list_result(status, body, p) ==
    IF status # 200 THEN <<<<>>, <<>>>> ELSE list_loop(body, 1, <<>>, <<>>, p)

ListRequest(kind) == [kind |-> kind, path |-> None]

FetchRequest(kind, timestamp) == [kind |-> kind, path |-> timestamp]

\* A caller invokes client.list_waves / client.list_spectra: the GET of the
\* listing URL is issued.
ListStart ==
    \E kind \in Kinds :
        /\ pc = "idle"
        /\ calls < MaxCalls
        /\ calls' = calls + 1
        /\ call' = [NoCall EXCEPT !.via = "api", !.op = "list", !.kind = kind]
        /\ requests' = <<ListRequest(kind)>>
        /\ statuses' = <<>>
        /\ invoked' = {"list"}
        /\ ret' = Ret("pending")
        /\ exit' = "none"
        /\ saved' = None
        /\ pc' = "list"
        /\ UNCHANGED <<remote, fetched, files, plots>>

\* The listing answers, and list_waves / list_spectra returns.
ListResponse ==
    \E status \in Statuses :
        /\ pc = "list"
        /\ statuses' = Append(statuses, status)
        /\ ret' = [tag |-> "lists",
                   timestamps |-> list_result(status, remote[call.kind], pad)[1],
                   isos |-> list_result(status, remote[call.kind], pad)[2]]
        /\ pc' = "done"
        /\ UNCHANGED <<remote, call, requests, invoked, exit, saved, fetched,
                       files, plots, calls>>

(***************************************************************************)
(* T8ApiClient: get_wave / get_spectrum                                    *)
(***************************************************************************)

\* Faulty variant of resolve: only "-" marks an ISO 8601 timestamp.
resolve_dash_only(timestamp) ==
    LET t == IF ~Truthy(timestamp) THEN <<"0">> ELSE timestamp
    IN  IF Contains(t, "-") THEN iso_to_epoch(t) ELSE t

\* The timestamp of the fetch URL: "0" for no timestamp, iso_to_epoch of
\* one that holds "T" or "-", the timestamp itself otherwise.
resolve(timestamp) ==
    LET t == IF ~Truthy(timestamp) THEN <<"0">> ELSE timestamp
    IN  IF Contains(t, "T") \/ Contains(t, "-") THEN iso_to_epoch(t) ELSE t

\* get_wave / get_spectrum is entered and issues the GET of the record.
get_begin(via, kind, dt, ts, timestamp) ==
    /\ call' = [via |-> via, op |-> "get", kind |-> kind, dt |-> dt, ts |-> ts,
                spec |-> timestamp, timestamp |-> resolve(timestamp)]
    /\ requests' = <<FetchRequest(kind, resolve(timestamp))>>
    /\ statuses' = <<>>
    /\ invoked' = {"get"}
    /\ ret' = Ret("pending")
    /\ exit' = "none"
    /\ saved' = None
    /\ pc' = "get_fetch"
    /\ UNCHANGED <<remote, fetched, files, plots>>

\* A caller invokes client.get_wave / client.get_spectrum.
GetStart ==
    \E kind \in Kinds, timestamp \in Specifiers :
        /\ pc = "idle"
        /\ calls < MaxCalls
        /\ calls' = calls + 1
        /\ get_begin("api", kind, None, None, timestamp)

\* How a command that called the client ends: a None or an exception of the
\* client becomes a ClickException.
exit_of(via, outcome) ==
    IF via # "cli" THEN "none"
    ELSE IF outcome = "dict" THEN "ok" ELSE "ClickException"

\* open(save_path, "w") and json.dump, then return the record.
save_record(label) ==
    /\ files' = files \cup {<<call.kind, label>>}
    /\ saved' = label
    /\ ret' = Ret("dict")
    /\ exit' = exit_of(call.via, "dict")
    /\ pc' = "done"

\* Faulty variant of fetch_failed: only a server error counts as a failure.
fetch_failed_5xx(status) == status >= 500

\* The status the fetch is answered with: anything but 200 returns None.
fetch_failed(status) == status # 200

\* Faulty variant of asked_latest: every fetched record is looked up.
asked_latest_always(timestamp) == TRUE

\* Faulty variant of asked_latest: no fetched record is looked up.
asked_latest_never(timestamp) == FALSE

\* Whether the fetched record is the latest one, whose timestamp is looked up.
asked_latest(timestamp) == timestamp = <<"0">>

\* The newest measurement of a body: the last item that has a self URL
\* other than the sentinel's, None when there is none.
RECURSIVE newest(_, _)
newest(body, i) ==
    IF i = 0 THEN None
    ELSE IF Truthy(body[i]) /\ last_segment(body[i]) # <<"0">>
    THEN last_segment(body[i])
    ELSE newest(body, i - 1)

\* The timestamp of the record the service sends for a fetch: that of its
\* newest measurement for "0", the one asked for otherwise.
served(body, timestamp) ==
    IF timestamp = <<"0">> THEN newest(body, Len(body)) ELSE timestamp

\* The fetch answers.
GetFetchResponse ==
    \E status \in Statuses :
        /\ pc = "get_fetch"
        /\ statuses' = Append(statuses, status)
        /\ IF fetch_failed(status)
           THEN /\ ret' = Ret("None")
                /\ exit' = exit_of(call.via, "None")
                /\ pc' = "done"
                /\ UNCHANGED <<requests, invoked, saved, files>>
           ELSE IF asked_latest(call.timestamp)
           THEN /\ requests' = Append(requests, ListRequest(call.kind))
                /\ invoked' = invoked \cup {"list"}
                /\ pc' = "get_list"
                /\ UNCHANGED <<ret, exit, saved, files>>
           ELSE /\ save_record(call.timestamp)
                /\ UNCHANGED <<requests, invoked>>
        /\ fetched' = IF status = 200
                      THEN served(remote[call.kind], call.timestamp)
                      ELSE None
        /\ UNCHANGED <<remote, call, plots, calls>>

\* Faulty variant of last_label: the entry before the last is taken.
last_label_but_one(urls) ==
    last_segment(urls[IF Len(urls) > 1 THEN Len(urls) - 1 ELSE 1])

\* Faulty variant of last_label: the first entry is taken.
first_label(urls) == last_segment(urls[1])

\* urls[-1].rstrip("/").split("/")[-1] of a nonempty list.
last_label(urls) == last_segment(urls[Len(urls)])

\* The listing of a latest fetch answers: urls[-1] of an empty list raises
\* IndexError.
GetListResponse ==
    \E status \in Statuses :
        /\ pc = "get_list"
        /\ statuses' = Append(statuses, status)
        /\ LET urls == list_result(status, remote[call.kind], pad)[1]
           IN  IF urls = <<>>
               THEN /\ ret' = Ret("IndexError")
                    /\ exit' = exit_of(call.via, "IndexError")
                    /\ pc' = "done"
                    /\ UNCHANGED <<saved, files>>
               ELSE save_record(last_label(urls))
        /\ UNCHANGED <<remote, call, requests, invoked, fetched, plots, calls>>

(***************************************************************************)
(* cli.py: get-wave, get-spectrum, plot-wave, plot-spectrum                *)
(***************************************************************************)

\* Faulty variant of both_given: the options are never found exclusive.
both_given_never(dt, ts) == FALSE

\* if dt_iso and ts_epoch: both options hold a value.
both_given(dt, ts) == Truthy(dt) /\ Truthy(ts)

\* a or b or None
or_none(a, b) == IF Truthy(a) THEN a ELSE IF Truthy(b) THEN b ELSE None

\* raise click.ClickException("Especifique solo una de las opciones ...")
usage_error(op, kind, dt, ts) ==
    /\ call' = [NoCall EXCEPT !.via = "cli", !.op = op, !.kind = kind,
                              !.dt = dt, !.ts = ts]
    /\ requests' = <<>>
    /\ statuses' = <<>>
    /\ invoked' = {}
    /\ ret' = Ret("none")
    /\ exit' = "UsageError"
    /\ saved' = None
    /\ pc' = "done"
    /\ UNCHANGED <<remote, fetched, files, plots>>

\* The get-wave / get-spectrum command.
CliGet ==
    \E kind \in Kinds, dt \in DtOptions, ts \in TsOptions :
        /\ pc = "idle"
        /\ calls < MaxCalls
        /\ calls' = calls + 1
        /\ IF both_given(dt, ts)
           THEN usage_error("get", kind, dt, ts)
           ELSE get_begin("cli", kind, dt, ts, or_none(dt, ts))

\* Faulty variant of plot_label: the sentinel labels every file looked up.
plot_label_zero(ts) == <<"0">>

\* timestamp_to_use = ts_epoch or "0"
plot_label(ts) == IF Truthy(ts) THEN ts ELSE <<"0">>

\* The file is looked up and, when it is there, client.plot_wave /
\* plot_spectrum draws it and saves the figure if the user answers yes.
plot_file(kind, ts, keep, before) ==
    IF <<kind, plot_label(ts)>> \in files
    THEN /\ invoked' = before \cup {"plot"}
         /\ ret' = Ret("plotted")
         /\ exit' = "ok"
         /\ plots' = IF keep THEN plots \cup {<<kind, plot_label(ts)>>} ELSE plots
    ELSE /\ invoked' = before
         /\ ret' = Ret("none")
         /\ exit' = "ClickException"
         /\ plots' = plots

\* The plot-wave / plot-spectrum command, up to its listing request if it
\* needs one and to its end otherwise.
CliPlot ==
    \E kind \in Kinds, dt \in DtOptions, ts \in TsOptions, keep \in BOOLEAN :
        /\ pc = "idle"
        /\ calls < MaxCalls
        /\ calls' = calls + 1
        /\ IF both_given(dt, ts)
           THEN usage_error("plot", kind, dt, ts)
           ELSE LET ts_epoch == IF Truthy(dt) THEN iso_to_epoch(dt) ELSE ts
                    conv == IF Truthy(dt) THEN {"iso_to_epoch"} ELSE {}
                IN  /\ statuses' = <<>>
                    /\ saved' = None
                    /\ UNCHANGED <<remote, fetched, files>>
                    /\ IF ~(Truthy(dt) \/ Truthy(ts_epoch))
                       THEN /\ call' = [via |-> "cli", op |-> "plot",
                                        kind |-> kind, dt |-> dt, ts |-> ts,
                                        spec |-> ts_epoch, timestamp |-> None]
                            /\ requests' = <<ListRequest(kind)>>
                            /\ invoked' = {"list"}
                            /\ ret' = Ret("pending")
                            /\ exit' = "none"
                            /\ pc' = "plot_list"
                            /\ plots' = plots
                       ELSE /\ call' = [via |-> "cli", op |-> "plot",
                                        kind |-> kind, dt |-> dt, ts |-> ts,
                                        spec |-> ts_epoch,
                                        timestamp |-> plot_label(ts_epoch)]
                            /\ requests' = <<>>
                            /\ plot_file(kind, ts_epoch, keep, conv)
                            /\ pc' = "done"

\* The listing of a plot command with no timestamp answers: the command
\* ends at once when the list is empty and plots the last entry otherwise.
PlotListResponse ==
    \E status \in Statuses, keep \in BOOLEAN :
        /\ pc = "plot_list"
        /\ statuses' = Append(statuses, status)
        /\ LET urls == list_result(status, remote[call.kind], pad)[1]
           IN  IF urls = <<>>
               THEN /\ call' = call
                    /\ invoked' = invoked
                    /\ ret' = Ret("none")
                    /\ exit' = "ClickException"
                    /\ plots' = plots
               ELSE /\ call' = [call EXCEPT !.timestamp = last_label(urls)]
                    /\ plot_file(call.kind, last_label(urls), keep, invoked)
        /\ pc' = "done"
        /\ UNCHANGED <<remote, requests, saved, fetched, files, calls>>

\* requests.get raises (a timeout, a connection failure): neither the
\* client nor the plot commands catch it where they list, and the get
\* commands turn it into a ClickException. No request follows.
RequestFails ==
    /\ pc \in {"list", "get_fetch", "get_list", "plot_list"}
    /\ ret' = Ret("IOError")
    /\ exit' = IF pc = "plot_list" THEN "IOError"
               ELSE exit_of(call.via, "IOError")
    /\ pc' = "done"
    /\ UNCHANGED <<remote, call, requests, statuses, invoked, saved, fetched,
                   files, plots, calls>>

\* The call is over: the command's process ends (or the caller of the
\* client has its answer) and the session is ready for the next call. What
\* stays is what is on disk.
Return ==
    /\ pc = "done"
    /\ pc' = "idle"
    /\ call' = NoCall
    /\ requests' = <<>>
    /\ statuses' = <<>>
    /\ invoked' = {}
    /\ ret' = Ret("none")
    /\ exit' = "none"
    /\ saved' = None
    /\ fetched' = None
    /\ UNCHANGED <<remote, files, plots, calls>>

(***************************************************************************)
(* Sessions                                                                *)
(***************************************************************************)

\* A session with the catalogue: the service holds a listing (the same
\* body at both endpoints), nothing is stored and no call is running.
Init ==
    /\ \E body \in SeqsUpTo(Items, MaxItems) : remote = [k \in Kinds |-> body]
    /\ CatalogIdle
    /\ pad = FALSE
    /\ TimeIdle
    /\ PadIdle
    /\ SpectrumIdle

Next ==
    \/ ListStart /\ UNCHANGED <<pad, timeVars, padVars, spectrumVars>>
    \/ ListResponse /\ UNCHANGED <<pad, timeVars, padVars, spectrumVars>>
    \/ GetStart /\ UNCHANGED <<pad, timeVars, padVars, spectrumVars>>
    \/ GetFetchResponse /\ UNCHANGED <<pad, timeVars, padVars, spectrumVars>>
    \/ GetListResponse /\ UNCHANGED <<pad, timeVars, padVars, spectrumVars>>
    \/ CliGet /\ UNCHANGED <<pad, timeVars, padVars, spectrumVars>>
    \/ CliPlot /\ UNCHANGED <<pad, timeVars, padVars, spectrumVars>>
    \/ PlotListResponse /\ UNCHANGED <<pad, timeVars, padVars, spectrumVars>>
    \/ RequestFails /\ UNCHANGED <<pad, timeVars, padVars, spectrumVars>>
    \/ Return /\ UNCHANGED <<pad, timeVars, padVars, spectrumVars>>

Spec == Init /\ [][Next]_vars

\* A listing session: as a catalogue session, with listings of every shape
\* and list calls only.
InitList ==
    /\ \E body \in SeqsUpTo(ListItems, MaxListItems) :
           remote = [k \in Kinds |-> body]
    /\ CatalogIdle
    /\ pad \in BOOLEAN
    /\ TimeIdle
    /\ PadIdle
    /\ SpectrumIdle

NextList ==
    \/ ListStart /\ UNCHANGED <<pad, timeVars, padVars, spectrumVars>>
    \/ ListResponse /\ UNCHANGED <<pad, timeVars, padVars, spectrumVars>>
    \/ RequestFails /\ UNCHANGED <<pad, timeVars, padVars, spectrumVars>>
    \/ Return /\ UNCHANGED <<pad, timeVars, padVars, spectrumVars>>

SpecList == InitList /\ [][NextList]_vars

\* The measurement the service records while the client is at work, newer
\* than those it holds.
NewItem == Url(<<"9">>, <<>>)

\* The service records a measurement of a kind: its listing grows by one
\* entry, at its end.
ServiceAdd ==
    \E kind \in Kinds :
        /\ \A i \in 1..Len(remote[kind]) : remote[kind][i] # NewItem
        /\ remote' = [remote EXCEPT ![kind] = Append(@, NewItem)]
        /\ UNCHANGED <<pc, call, requests, statuses, invoked, ret, exit,
                       saved, fetched, files, plots, calls>>

\* A session of gets against a service that goes on measuring.
NextRace ==
    \/ GetStart /\ UNCHANGED <<pad, timeVars, padVars, spectrumVars>>
    \/ GetFetchResponse /\ UNCHANGED <<pad, timeVars, padVars, spectrumVars>>
    \/ GetListResponse /\ UNCHANGED <<pad, timeVars, padVars, spectrumVars>>
    \/ RequestFails /\ UNCHANGED <<pad, timeVars, padVars, spectrumVars>>
    \/ ServiceAdd /\ UNCHANGED <<pad, timeVars, padVars, spectrumVars>>
    \/ Return /\ UNCHANGED <<pad, timeVars, padVars, spectrumVars>>

SpecRace == Init /\ [][NextRace]_vars

(***************************************************************************)
(* Conversions: an epoch to ISO 8601 and back                              *)
(***************************************************************************)

\* Days of the epochs converted: the last day of year 0 and the first of
\* year 1, the last of 999 and the first of 1000, days around the origin,
\* 2000-02-29, 2019-04-10, 2100-03-01, the last day of 9999 and the first
\* of 10000.
DaySamples ==
    {0 - 719163, 0 - 719162, 0 - 354286, 0 - 354285, 0 - 366, 0 - 1, 0, 1,
     11016, 17996, 47541, 2932896, 2932897}

\* Seconds of the day of the epochs converted.
SecondSamples == {0, 1, 5, 59, 60, 3599, 3600, 43200, 86399}

EpochSamples == {StrOf(Num(d, s)) : d \in DaySamples, s \in SecondSamples}

InitTime ==
    /\ remote = [k \in Kinds |-> <<>>]
    /\ CatalogIdle
    /\ pad \in BOOLEAN
    /\ tIn \in EpochSamples
    /\ tIso = None
    /\ tOut = None
    /\ tpc = "in"
    /\ PadIdle
    /\ SpectrumIdle

\* iso = client.epoch_to_iso(e)
EpochToIso ==
    /\ tpc = "in"
    /\ tIso' = epoch_to_iso(tIn, pad)
    /\ tpc' = "iso"
    /\ UNCHANGED <<tIn, tOut>>

\* client.iso_to_epoch(iso)
IsoToEpoch ==
    /\ tpc = "iso"
    /\ tOut' = iso_to_epoch(tIso)
    /\ tpc' = "out"
    /\ UNCHANGED <<tIn, tIso>>

NextTime ==
    \/ EpochToIso /\ UNCHANGED <<catalogVars, pad, padVars, spectrumVars>>
    \/ IsoToEpoch /\ UNCHANGED <<catalogVars, pad, padVars, spectrumVars>>

SpecTime == InitTime /\ [][NextTime]_vars

(***************************************************************************)
(* T8ApiClient: zero_padding                                               *)
(***************************************************************************)

\* Bound: the length of a waveform.
MaxLen == 5

\* Values of the samples of a (windowed) waveform.
SampleValues == {0 - 1, 0, 2}

\* np.ceil(np.log2(n)).astype(int) for n >= 1: the least k with 2^k >= n.
RECURSIVE ceil_log2(_)
ceil_log2(n) == IF n <= 1 THEN 0 ELSE 1 + ceil_log2((n + 1) \div 2)

\* np.pad(waveform, (0, k), "constant")
pad_right(w, k) == w \o [i \in 1..k |-> 0]

\* Faulty variant of zero_padding: the logarithm is truncated, not rounded up.
zero_padding_floor(w) ==
    pad_right(w, 2 ^ (IF 2 ^ ceil_log2(Len(w)) = Len(w)
                      THEN ceil_log2(Len(w))
                      ELSE ceil_log2(Len(w)) - 1) - Len(w))

\* T8ApiClient.zero_padding
zero_padding(w) == pad_right(w, 2 ^ ceil_log2(Len(w)) - Len(w))

InitPad ==
    /\ remote = [k \in Kinds |-> <<>>]
    /\ CatalogIdle
    /\ pad = FALSE
    /\ TimeIdle
    /\ waveform \in SeqsUpTo(SampleValues, MaxLen) \ {<<>>}
    /\ padded = <<>>
    /\ ppc = "in"
    /\ SpectrumIdle

\* padded = client.zero_padding(waveform)
ZeroPadding ==
    /\ ppc = "in"
    /\ padded' = zero_padding(waveform)
    /\ ppc' = "out"
    /\ UNCHANGED waveform

NextPad == ZeroPadding /\ UNCHANGED <<catalogVars, pad, timeVars, spectrumVars>>

SpecPad == InitPad /\ [][NextPad]_vars

(***************************************************************************)
(* The data of a record: base64 text of a zlib stream of int16 samples     *)
(***************************************************************************)

\* A value a library call returned, or the exception it raised.
Returned(v) == [err |-> "", val |-> v]

Raised(e) == [err |-> e, val |-> <<>>]

\* The base64 alphabet; "=" pads the last group.
B64Alphabet ==
    <<"A", "B", "C", "D", "E", "F", "G", "H", "I", "J", "K", "L", "M",
      "N", "O", "P", "Q", "R", "S", "T", "U", "V", "W", "X", "Y", "Z",
      "a", "b", "c", "d", "e", "f", "g", "h", "i", "j", "k", "l", "m",
      "n", "o", "p", "q", "r", "s", "t", "u", "v", "w", "x", "y", "z",
      "0", "1", "2", "3", "4", "5", "6", "7", "8", "9", "+", "/">>

IsB64(c) == \E i \in 1..64 : B64Alphabet[i] = c

B64Val(c) == (CHOOSE i \in 1..64 : B64Alphabet[i] = c) - 1

B64Chr(v) == B64Alphabet[v + 1]

\* base64.b64encode: three bytes make four characters.
RECURSIVE b64encode(_)
b64encode(bytes) ==
    IF Len(bytes) = 0 THEN <<>>
    ELSE IF Len(bytes) = 1
    THEN LET n == bytes[1] * 16
         IN  <<B64Chr(n \div 64), B64Chr(n % 64), "=", "=">>
    ELSE IF Len(bytes) = 2
    THEN LET n == (bytes[1] * 256 + bytes[2]) * 4
         IN  <<B64Chr(n \div 4096), B64Chr((n \div 64) % 64), B64Chr(n % 64),
               "=">>
    ELSE LET n == bytes[1] * 65536 + bytes[2] * 256 + bytes[3]
         IN  <<B64Chr(n \div 262144), B64Chr((n \div 4096) % 64),
               B64Chr((n \div 64) % 64), B64Chr(n % 64)>>
             \o b64encode(SubSeq(bytes, 4, Len(bytes)))

\* The bytes of one group of four characters, or <<0 - 1>> for a group that
\* is no base64.
b64group(g, last) ==
    IF ~(IsB64(g[1]) /\ IsB64(g[2])) THEN <<0 - 1>>
    ELSE IF last /\ g[3] = "=" /\ g[4] = "="
    THEN <<(B64Val(g[1]) * 64 + B64Val(g[2])) \div 16>>
    ELSE IF ~IsB64(g[3]) THEN <<0 - 1>>
    ELSE IF last /\ g[4] = "="
    THEN LET n == (B64Val(g[1]) * 4096 + B64Val(g[2]) * 64 + B64Val(g[3]))
                  \div 4
         IN  <<n \div 256, n % 256>>
    ELSE IF ~IsB64(g[4]) THEN <<0 - 1>>
    ELSE LET n == B64Val(g[1]) * 262144 + B64Val(g[2]) * 4096
                  + B64Val(g[3]) * 64 + B64Val(g[4])
         IN  <<n \div 65536, (n \div 256) % 256, n % 256>>

RECURSIVE b64groups(_, _, _)
b64groups(s, i, acc) ==
    IF i > Len(s) THEN Returned(acc)
    ELSE LET bytes == b64group(SubSeq(s, i, i + 3), i + 3 = Len(s))
         IN  IF bytes = <<0 - 1>> THEN Raised("binascii.Error")
             ELSE b64groups(s, i + 4, acc \o bytes)

\* base64.b64decode of text made of the alphabet and padding: a length
\* that is no multiple of four is "Incorrect padding".
b64decode(s) ==
    IF Len(s) % 4 # 0 THEN Raised("binascii.Error") ELSE b64groups(s, 1, <<>>)

\* The Adler-32 sums (a, b) of a buffer.
RECURSIVE adler32(_, _, _, _)
adler32(bytes, i, a, b) ==
    IF i > Len(bytes) THEN <<a, b>>
    ELSE adler32(bytes, i + 1, (a + bytes[i]) % 65521,
                 (b + ((a + bytes[i]) % 65521)) % 65521)

Adler32Bytes(bytes) ==
    LET s == adler32(bytes, 1, 1, 0)
    IN  <<s[2] \div 256, s[2] % 256, s[1] \div 256, s[1] % 256>>

\* A zlib stream of the buffer: the two header bytes, one final stored
\* deflate block (its length and the complement of its length, low byte
\* first) and the Adler-32 of the buffer.
zlib_compress(raw) ==
    <<120, 1>>
    \o <<1, Len(raw) % 256, Len(raw) \div 256,
         255 - (Len(raw) % 256), 255 - (Len(raw) \div 256)>>
    \o raw \o Adler32Bytes(raw)

\* zlib.decompress of a stream of one final stored block; a header, a
\* length or a checksum that does not fit is zlib.error.
zlib_decompress(z) ==
    IF Len(z) < 11 THEN Raised("zlib.error")
    ELSE LET n == z[4] + 256 * z[5]
         IN  IF \/ z[1] % 16 # 8
                \/ (z[1] * 256 + z[2]) % 31 # 0
                \/ (z[2] \div 32) % 2 # 0
                \/ z[3] % 8 # 1
                \/ z[6] + 256 * z[7] # 65535 - n
                \/ Len(z) # 11 + n
             THEN Raised("zlib.error")
             ELSE IF SubSeq(z, 8 + n, 11 + n)
                         # Adler32Bytes(SubSeq(z, 8, 7 + n))
             THEN Raised("zlib.error")
             ELSE Returned(SubSeq(z, 8, 7 + n))

\* The bytes of int16 samples, low byte first.
int16_bytes(samples) ==
    [i \in 1..(2 * Len(samples)) |->
        LET u == (samples[(i + 1) \div 2] + 65536) % 65536
        IN  IF i % 2 = 1 THEN u % 256 ELSE u \div 256]

\* The data the service puts in a record: base64 of the zlib stream of the
\* buffer.
encode(raw) == b64encode(zlib_compress(raw))

\* The int16 two bytes hold on a host of the given byte order.
int16_at(b1, b2, byteorder) ==
    LET u == IF byteorder = "little" THEN b1 + 256 * b2 ELSE 256 * b1 + b2
    IN  IF u >= 32768 THEN u - 65536 ELSE u

\* Faulty variant of frombuffer: a stray last byte is dropped.
frombuffer_truncating(raw, byteorder) ==
    Returned([i \in 1..(Len(raw) \div 2) |->
                 int16_at(raw[2 * i - 1], raw[2 * i], byteorder)])

\* Faulty variant of frombuffer: the bytes are read as unsigned.
frombuffer_unsigned(raw, byteorder) ==
    IF Len(raw) % 2 # 0 THEN Raised("ValueError")
    ELSE Returned([i \in 1..(Len(raw) \div 2) |->
                      raw[2 * i - 1] + 256 * raw[2 * i]])

\* np.frombuffer(raw, dtype=np.int16): a buffer whose size is no multiple
\* of the element size is a ValueError; np.int16 has the host's byte order.
frombuffer(raw, byteorder) ==
    IF Len(raw) % 2 # 0 THEN Raised("ValueError")
    ELSE Returned([i \in 1..(Len(raw) \div 2) |->
                      int16_at(raw[2 * i - 1], raw[2 * i], byteorder)])

\* zlib.decompress(base64.b64decode(data)), then np.frombuffer: the first
\* call that raises ends the decoding.
decode(data, byteorder) ==
    LET b == b64decode(data)
        z == IF b.err = "" THEN zlib_decompress(b.val) ELSE b
    IN  IF z.err = "" THEN frombuffer(z.val, byteorder) ELSE z

(***************************************************************************)
(* T8ApiClient: compute_spectrum                                           *)
(***************************************************************************)

\* The byte order of the host, which np.int16 follows.
sys_byteorder == "little"

\* Bound: the samples of a wave whose data is decoded value by value.
MaxSamples == 3

\* Bound: the samples of a wave whose spectrum is filtered to a band.
MaxWave == 5

\* Values of the int16 samples of a wave.
Int16Samples == {0 - 32768, 0 - 1, 0, 258, 32767}

\* What follows the samples in the buffer: nothing, or one stray byte.
ExtraBytes == {<<>>, <<7>>}

\* The sample rates of a wave and the edges of the band asked for, in Hz.
SampleRates == {2, 8}

BandEdges == {0 - 4, 0 - 1, 0, 1, 4}

\* A step of the pipeline and the number of samples it ran on.
Stage(name, n) == [stage |-> name, n |-> n]

\* zero_padding of no sample: np.log2(0) is -inf, whose conversion to int
\* is the most negative integer, and 2 ** of a negative integer raises
\* ValueError.
zero_padding_raises(n) == n = 0

\* np.fft.fftfreq(n, 1 / sample_rate): the bins 0 .. (n-1) div 2, then
\* -(n div 2) .. -1, each times sample_rate / n. A frequency is carried as
\* the fraction num / den.
fftfreq(n, sample_rate) ==
    [i \in 1..n |->
        LET k == IF i <= (n - 1) \div 2 + 1 THEN i - 1 ELSE i - 1 - n
        IN  [num |-> k * sample_rate, den |-> n]]

\* np.abs(spectrum) / len(spectrum): one magnitude per bin, carried as the
\* bin it belongs to.
magnitude_of(n) == [i \in 1..n |-> [bin |-> i]]

\* Faulty variant of in_band: the upper edge is left out.
in_band_open(f, fmin, fmax) == f.num >= fmin * f.den /\ f.num < fmax * f.den

\* (freqs >= fmin) & (freqs <= fmax), for one frequency.
in_band(f, fmin, fmax) == f.num >= fmin * f.den /\ f.num <= fmax * f.den

\* a[mask]: the elements of a where the mask holds, in the order of a.
RECURSIVE masked(_, _, _)
masked(a, mask, i) ==
    IF i > Len(a) THEN <<>>
    ELSE (IF mask[i] THEN <<a[i]>> ELSE <<>>) \o masked(a, mask, i + 1)

\* T8ApiClient.compute_spectrum(wave_file, fmin, fmax): the data is
\* decoded, the signal scaled, its mean removed, windowed and padded, the
\* transform taken and filtered to the band, and the result written.
compute_spectrum(w, fmin, fmax) ==
    LET d == decode(w.data, sys_byteorder)
        n == Len(d.val)
        ran == <<Stage("mean", n), Stage("hanning", n),
                 Stage("zero_padding", n)>>
    IN  IF d.err # ""
        THEN [NotComputed EXCEPT !.outcome = d.err, !.at = "decode"]
        ELSE IF zero_padding_raises(n)
        THEN [NotComputed EXCEPT !.outcome = "ValueError",
                                 !.at = "zero_padding", !.signal = d.val,
                                 !.stages = ran]
        ELSE LET n_fft == Len(zero_padding(d.val))
                 freqs == fftfreq(n_fft, w.sample_rate)
                 mask == [i \in 1..n_fft |-> in_band(freqs[i], fmin, fmax)]
             IN  [outcome |-> "written",
                  at |-> "",
                  signal |-> d.val,
                  stages |-> Append(ran, Stage("fft", n_fft)),
                  freqs |-> masked(freqs, mask, 1),
                  spectrum |-> masked(magnitude_of(n_fft), mask, 1),
                  n_original |-> n,
                  n_fft |-> n_fft,
                  written |-> TRUE]

\* The wave file of a buffer the service packed.
WaveOf(o, sample_rate) ==
    [data |-> encode(int16_bytes(o.samples) \o o.extra),
     sample_rate |-> sample_rate]

\* A wave file is on disk: either a short wave of any samples, with or
\* without a stray byte, or a longer wave with any sample rate and band.
InitSpectrum ==
    /\ remote = [k \in Kinds |-> <<>>]
    /\ CatalogIdle
    /\ pad = FALSE
    /\ TimeIdle
    /\ PadIdle
    /\ \/ /\ origin \in [samples : SeqsUpTo(Int16Samples, MaxSamples),
                         extra : ExtraBytes]
          /\ wave = WaveOf(origin, 8)
          /\ band = [fmin |-> 0, fmax |-> 4]
       \/ /\ \E n \in 1..MaxWave :
                 origin = [samples |-> [i \in 1..n |-> i], extra |-> <<>>]
          /\ \E r \in SampleRates : wave = WaveOf(origin, r)
          /\ band \in [fmin : BandEdges, fmax : BandEdges]
    /\ computed = NotComputed
    /\ spc = "in"

\* client.compute_spectrum(wave_file, fmin, fmax)
ComputeSpectrum ==
    /\ spc = "in"
    /\ computed' = compute_spectrum(wave, band.fmin, band.fmax)
    /\ spc' = "out"
    /\ UNCHANGED <<wave, band, origin>>

NextSpectrum ==
    ComputeSpectrum /\ UNCHANGED <<catalogVars, pad, timeVars, padVars>>

SpecSpectrum == InitSpectrum /\ [][NextSpectrum]_vars

(***************************************************************************)
(* Properties                                                              *)
(***************************************************************************)

\* The last path segment of a URL, stated from its positions: it ends at
\* the last character that is no slash and starts after the last slash
\* before that.
PathEnd(u) ==
    IF \E j \in 1..Len(u) : u[j] # "/"
    THEN CHOOSE j \in 1..Len(u) :
             u[j] # "/" /\ \A k \in (j + 1)..Len(u) : u[k] = "/"
    ELSE 0

PathStart(u) ==
    IF \E i \in 1..PathEnd(u) : u[i] = "/"
    THEN CHOOSE i \in 1..PathEnd(u) :
             u[i] = "/" /\ \A k \in (i + 1)..PathEnd(u) : u[k] # "/"
    ELSE 0

PathSegment(u) == SubSeq(u, PathStart(u) + 1, PathEnd(u))

HasSelf(u) == u # None /\ u # Empty

NotSentinel(s) == s # <<"0">>

\* The last path segments of the self URLs of a body, the "0" ones removed.
SegmentsOf(body) ==
    LET urls == SelectSeq(body, HasSelf)
    IN  SelectSeq([i \in 1..Len(urls) |-> PathSegment(urls[i])], NotSentinel)

\* The client's list method was called by the caller itself.
ListDone == pc = "done" /\ call.op = "list"

\* The client's get method was entered / has ended.
GetCalled == "get" \in invoked

GetDone == pc = "done" /\ GetCalled

C2_LatestLabel ==
    /\ (GetDone /\ call.timestamp = <<"0">> /\ statuses = <<200, 200>>
          /\ SegmentsOf(remote[call.kind]) # <<>>) =>
            /\ requests = <<FetchRequest(call.kind, <<"0">>),
                            ListRequest(call.kind)>>
            /\ ret.tag = "dict"
            /\ saved = SegmentsOf(remote[call.kind])
                           [Len(SegmentsOf(remote[call.kind]))]
            /\ <<call.kind, saved>> \in files
    /\ (GetCalled /\ call.timestamp # <<"0">>) =>
            /\ requests = <<FetchRequest(call.kind, call.timestamp)>>
            /\ ret.tag = "dict" =>
                   saved = call.timestamp /\ <<call.kind, saved>> \in files
    /\ pc = "get_fetch" => requests = <<FetchRequest(call.kind, call.timestamp)>>

\* C2 witness: a latest get against a listing whose last raw item is the
\* sentinel persisted its record under the measurement before it.
C2_Witness ==
    /\ GetDone
    /\ call.timestamp = <<"0">>
    /\ statuses = <<200, 200>>
    /\ remote[call.kind] = <<Url(<<"7">>, <<"/">>), Url(<<"0">>, <<>>)>>
    /\ saved = <<"7">>

\* The timestamp of the fetch as a function of the specifier, with an
\* absent specifier alone standing for the latest record.
ResolvedNullOnly(spec) ==
    IF spec = None THEN <<"0">>
    ELSE IF Contains(spec, "-") \/ Contains(spec, "T") THEN iso_to_epoch(spec)
    ELSE spec

\* The same with an absent or empty specifier standing for the latest.
ResolvedNullOrEmpty(spec) ==
    IF spec = None \/ spec = Empty THEN <<"0">>
    ELSE IF Contains(spec, "-") \/ Contains(spec, "T") THEN iso_to_epoch(spec)
    ELSE spec

\* C3 as stated: the fetch uses "0" for a null specifier, iso_to_epoch of
\* a specifier holding "-" or "T", and every other specifier verbatim.
C3_ResolveNullOnly ==
    GetCalled => requests[1].path = ResolvedNullOnly(call.spec)

\* C3 amended: the fetch uses "0" for a null or empty specifier,
\* iso_to_epoch of a specifier holding "-" or "T", and every other
\* specifier verbatim; it depends on the specifier alone.
C3_ResolveNullOrEmpty ==
    GetCalled =>
        /\ requests[1] = FetchRequest(call.kind, ResolvedNullOrEmpty(call.spec))
        /\ call.timestamp = ResolvedNullOrEmpty(call.spec)

\* C3 witness: a get with the empty specifier fetched "0" against a
\* listing that holds measurements.
C3_Witness ==
    /\ GetCalled
    /\ call.spec = Empty
    /\ requests[1].path = <<"0">>
    /\ SegmentsOf(remote[call.kind]) # <<>>

\* C4: a listing answered with a status other than 200 makes list_waves /
\* list_spectra return two empty sequences, and return (not raise).
C4_ListFailureIsEmpty ==
    (ListDone /\ statuses # <<>> /\ statuses # <<200>>) =>
        /\ ret.tag = "lists"
        /\ ret.timestamps = <<>>
        /\ ret.isos = <<>>

\* C4 witness: a listing that holds measurements was answered with 500 and
\* the call returned nothing.
C4_Witness ==
    /\ ListDone
    /\ statuses = <<500>>
    /\ SegmentsOf(remote[call.kind]) # <<>>
    /\ ret.timestamps = <<>>

\* C5: a fetch answered with a status other than 200 ends the get with
\* the failure value None, with no further request and nothing written.
C5_FetchFailureReturnsNone ==
    [][(pc = "get_fetch" /\ statuses' # statuses
          /\ statuses'[Len(statuses')] # 200) =>
            /\ pc' = "done"
            /\ ret'.tag = "None"
            /\ requests' = requests
            /\ saved' = None
            /\ files' = files
            /\ plots' = plots]_vars

\* C5 witness: a latest get whose fetch was answered with 404 returned None
\* with the fetch its only request, against a listing with measurements.
C5_Witness ==
    /\ GetDone
    /\ call.timestamp = <<"0">>
    /\ statuses = <<404>>
    /\ ret.tag = "None"
    /\ Len(requests) = 1
    /\ SegmentsOf(remote[call.kind]) # <<>>

\* C6 as stated, where the service holds measurements and answers the
\* listing of a latest get with 4xx/5xx after its fetch succeeded: the
\* get ends with a record or the failure value. (A listing with no
\* non-sentinel entry ends the get the same way.)
C6_LatestNeverRaises ==
    (GetDone /\ call.timestamp = <<"0">> /\ Len(statuses) = 2
       /\ statuses[1] = 200 /\ statuses[2] # 200
       /\ SegmentsOf(remote[call.kind]) # <<>>) => ret.tag \in {"dict", "None"}

\* C7 as stated: a get whose specifier is taken for ISO 8601 and does not
\* parse ends in failure, with no record stored under the empty timestamp.
C7_UnparsableIsFailure ==
    (GetDone /\ (Contains(call.spec, "-") \/ Contains(call.spec, "T"))
       /\ iso_to_epoch(call.spec) = Empty) =>
        /\ ret.tag # "dict"
        /\ <<call.kind, Empty>> \notin files

\* C8: a get or plot command given both -d and -t ends at once as a usage
\* error: no client method invoked, no request issued, nothing written.
C8_BothOptionsRejected ==
    [][(pc = "idle" /\ call'.via = "cli" /\ Truthy(call'.dt)
          /\ Truthy(call'.ts)) =>
            /\ pc' = "done"
            /\ exit' = "UsageError"
            /\ invoked' = {}
            /\ requests' = <<>>
            /\ saved' = None
            /\ files' = files
            /\ plots' = plots]_vars

\* C8 witness: a plot command given both options was rejected although
\* the record its -t names is stored.
C8_Witness ==
    /\ pc = "done"
    /\ call.op = "plot"
    /\ Truthy(call.dt)
    /\ Truthy(call.ts)
    /\ exit = "UsageError"
    /\ <<call.kind, call.ts>> \in files

\* The ISO 8601 form YYYY-MM-DDTHH:MM:SS, with no suffix.
IsoShape(s) ==
    /\ Len(s) = 19
    /\ \A i \in {1, 2, 3, 4, 6, 7, 9, 10, 12, 13, 15, 16, 18, 19} : IsDigit(s[i])
    /\ s[5] = "-" /\ s[8] = "-" /\ s[11] = "T" /\ s[14] = ":" /\ s[17] = ":"

\* The epochs of the years 1000 to 9999:
\* -30610224000 <= e <= 253402300799.
InFourDigitYears(e) ==
    IntOf(e).day >= 0 - 354285 /\ IntOf(e).day <= 2932896

IsPow2(m) == \E k \in 0..m : 2 ^ k = m

\* C10: zero_padding of n >= 1 samples returns the samples followed by
\* zeros, of a length that is the least power of two >= n (n itself when n
\* is a power of two).
C10_PadsToNextPowerOfTwo ==
    ppc = "out" =>
        /\ IsPow2(Len(padded))
        /\ Len(padded) >= Len(waveform)
        /\ \A q \in Len(waveform)..(Len(padded) - 1) : ~IsPow2(q)
        /\ IsPow2(Len(waveform)) => Len(padded) = Len(waveform)
        /\ SubSeq(padded, 1, Len(waveform)) = waveform
        /\ \A i \in (Len(waveform) + 1)..Len(padded) : padded[i] = 0

\* C10 witness: five samples were padded to eight.
C10_Witness == ppc = "out" /\ Len(waveform) = 5 /\ Len(padded) = 8

\* The computation is over and wrote its result.
SpectrumWritten == spc = "out" /\ computed.outcome = "written"

\* The bins of a transform of n points, by signed index, and those whose
\* frequency k * sample_rate / n lies in the band.
BinIndices(n) == (0 - (n \div 2))..((n - 1) \div 2)

InBandBins(n, sample_rate, fmin, fmax) ==
    {k \in BinIndices(n) : fmin * n <= k * sample_rate
                           /\ k * sample_rate <= fmax * n}

\* The signed index of the bin at a position of the transform.
BinAt(i, n) == IF i <= (n - 1) \div 2 + 1 THEN i - 1 ELSE i - 1 - n

\* C11: compute_spectrum emits exactly the bins whose frequency lies in
\* [fmin, fmax], both ends included: every emitted frequency is in the
\* band, every in-band bin is emitted, and the frequencies and the
\* magnitudes are as many as the in-band bins (none when fmin > fmax),
\* each magnitude that of the bin of its frequency.
C11_BandExact ==
    SpectrumWritten =>
        LET n == computed.n_fft
            r == wave.sample_rate
            inband == InBandBins(n, r, band.fmin, band.fmax)
        IN  /\ {computed.freqs[i] : i \in 1..Len(computed.freqs)}
                   = {[num |-> k * r, den |-> n] : k \in inband}
            /\ Len(computed.freqs) = Cardinality(inband)
            /\ Len(computed.spectrum) = Cardinality(inband)
            /\ \A i \in 1..Len(computed.freqs) :
                   BinAt(computed.spectrum[i].bin, n) * r
                       = computed.freqs[i].num

\* A transform of eight points is filtered to a band whose upper edge is
\* the frequency of a bin, which is emitted.
C11_Witness ==
    /\ SpectrumWritten
    /\ computed.n_fft = 8
    /\ Len(computed.freqs) >= 2
    /\ Len(computed.freqs) < 8
    /\ \E i \in 1..Len(computed.freqs) :
           computed.freqs[i].num = band.fmax * computed.freqs[i].den

\* C12: the frequencies compute_spectrum emits are strictly ascending,
\* whatever the band, a negative fmin included.
C12_Ascending ==
    SpectrumWritten =>
        \A i, j \in 1..Len(computed.freqs) :
            i < j => computed.freqs[i].num < computed.freqs[j].num

\* The decompressed buffer of the wave's data has an odd length.
OddBuffer == Len(int16_bytes(origin.samples) \o origin.extra) % 2 = 1

\* C13: when the decompressed data has an odd byte length, the decoding of
\* compute_spectrum raises: no signal reaches the pipeline, no step of it
\* runs and no result is written.
C13_OddBufferFails ==
    (spc = "out" /\ OddBuffer) =>
        /\ computed.outcome = "ValueError"
        /\ computed.at = "decode"
        /\ computed.signal = <<>>
        /\ computed.stages = <<>>
        /\ ~computed.written

\* Two samples and a stray byte were decoded.
C13_Witness ==
    /\ spc = "out"
    /\ Len(origin.samples) = 2
    /\ origin.extra = <<7>>
    /\ computed.outcome = "ValueError"

\* C15: data that holds no sample is rejected by the decoding: no step of
\* the pipeline (mean removal, window, zero_padding) runs on no sample.
C15_EmptyRejected ==
    (spc = "out" /\ origin.samples = <<>> /\ origin.extra = <<>>) =>
        /\ computed.at = "decode"
        /\ \A i \in 1..Len(computed.stages) : computed.stages[i].n > 0

\* C16: the int16 samples packed as base64 of the zlib stream of their
\* low-byte-first bytes are decoded to the same samples, as many and the
\* same values.
C16_RoundTrip ==
    (spc = "out" /\ origin.extra = <<>>) =>
        /\ computed.at # "decode"
        /\ computed.signal = origin.samples

\* Three samples, the least and the greatest int16 among them, were
\* decoded.
C16_Witness ==
    /\ spc = "out"
    /\ Len(origin.samples) = 3
    /\ \E i, j \in 1..3 : /\ origin.samples[i] = 0 - 32768
                          /\ origin.samples[j] = 32767
    /\ computed.signal = origin.samples
    /\ computed.written

\* C14 as stated: a call of a list or get method, or a plot command,
\* issues at most one request.
C14_AtMostOneRequest == Len(requests) <= 1

\* C14 amended: a list method issues one request; a get method issues the
\* fetch and, only when the fetch is for "0" and was answered 200, the
\* listing after it, so two requests at most and never the same twice; a
\* request that fails (timeout, connection failure) ends the call with the
\* error, every request before it answered and none issued after it.
C14_RequestsPerCall ==
    /\ Len(requests) <= 2
    /\ Len(statuses) <= Len(requests)
    /\ call.op \in {"list", "plot"} => Len(requests) <= 1
    /\ Len(requests) = 2 =>
           /\ call.op = "get"
           /\ call.timestamp = <<"0">>
           /\ statuses[1] = 200
           /\ requests = <<FetchRequest(call.kind, <<"0">>),
                           ListRequest(call.kind)>>
    /\ ret.tag = "IOError" =>
           /\ pc = "done"
           /\ Len(requests) = Len(statuses) + 1
           /\ saved = None

\* C14 witness: the listing of a latest get failed after its fetch was
\* answered: two requests, one answer, the error returned.
C14_Witness ==
    /\ GetDone
    /\ ret.tag = "IOError"
    /\ Len(requests) = 2
    /\ statuses = <<200>>

\* C18: no record is stored under the label "0"; a get that resolved to
\* "0" and stored its record stored it under a non-sentinel entry of the
\* listing.
C18_NeverUnderSentinel ==
    /\ \A f \in files : f[2] # <<"0">>
    /\ (GetDone /\ call.timestamp = <<"0">> /\ saved # None) =>
           /\ saved # <<"0">>
           /\ \E i \in 1..Len(SegmentsOf(remote[call.kind])) :
                  saved = SegmentsOf(remote[call.kind])[i]

\* C18 witness: a get with the ISO 8601 text of the epoch origin, against
\* a listing that holds the sentinel and a measurement, stored its record
\* under the measurement.
C18_Witness ==
    /\ GetDone
    /\ call.spec = IsoOrigin
    /\ remote[call.kind] = <<Url(<<"0">>, <<>>), Url(<<"5">>, <<>>)>>
    /\ saved = <<"5">>
    /\ <<call.kind, <<"5">>>> \in files

\* The last non-sentinel entry of the listing of a kind.
LatestOf(kind) ==
    SegmentsOf(remote[kind])[Len(SegmentsOf(remote[kind]))]

\* A get or a plot command that was given no specifier has had its listing
\* answered with entries.
LatestResolved(op) ==
    /\ pc = "done"
    /\ call.op = op
    /\ ~Truthy(call.spec)
    /\ Len(requests) = (IF op = "get" THEN 2 ELSE 1)
    /\ Len(statuses) = Len(requests)
    /\ statuses[Len(statuses)] = 200
    /\ SegmentsOf(remote[call.kind]) # <<>>

\* C19: with no specifier, a get stores its record under the last
\* non-sentinel entry of the listing and a plot command looks its file up
\* under the same entry, so that the file a latest get stored is the one a
\* following plot finds and draws.
C19_SameLatestRule ==
    /\ LatestResolved("get") =>
           saved = LatestOf(call.kind) /\ <<call.kind, saved>> \in files
    /\ LatestResolved("plot") =>
           /\ call.timestamp = LatestOf(call.kind)
           /\ <<call.kind, LatestOf(call.kind)>> \in files =>
                  ret.tag = "plotted" /\ exit = "ok"

\* C19 witness: a plot command with no specifier drew the record that only
\* a latest get can have stored (no specifier names the measurement 7).
C19_Witness ==
    /\ LatestResolved("plot")
    /\ remote[call.kind] = <<Url(<<"5">>, <<>>), Url(<<"7">>, <<"/">>)>>
    /\ files = {<<call.kind, <<"7">>>>}
    /\ call.timestamp = <<"7">>
    /\ ret.tag = "plotted"

\* The record a get stored does not bear the timestamp of the measurement
\* the service sent.
Mislabelled ==
    /\ GetDone
    /\ saved # None
    /\ fetched # None
    /\ saved # fetched

\* C17: a latest get can store the record it fetched under the timestamp
\* of another measurement, and does so only when the service recorded a
\* measurement between the fetch and the listing: the label is then that
\* of the new measurement, the record an older one.
C17_MislabelledByRace ==
    Mislabelled =>
        /\ call.timestamp = <<"0">>
        /\ statuses = <<200, 200>>
        /\ saved = last_segment(NewItem)
        /\ fetched # last_segment(NewItem)
        /\ \E i \in 1..Len(remote[call.kind]) : remote[call.kind][i] = NewItem

\* C17 witness: the service held the measurement 5 when it answered the
\* fetch of "0" and the measurement 9 as well when it answered the
\* listing: the record of 5 is on disk under the label 9.
C17_Witness ==
    /\ Mislabelled
    /\ call.timestamp = <<"0">>
    /\ fetched = <<"5">>
    /\ saved = <<"9">>
    /\ <<call.kind, <<"9">>>> \in files
    /\ <<call.kind, <<"5">>>> \notin files

====
